---- MODULE Spec2Model ----
(***************************************************************************)
(* A model of analyzer/bear.py: 'bear' runs a build, collects the trace    *)
(* files the preloaded library wrote into a scratch directory,             *)
(* and writes a compilation database.                                      *)
(*                                                                         *)
(* Text is a sequence of characters; a character is a one-element string.  *)
(* The control characters have names: RS (0x1e), US (0x1f), LF, CR.        *)
(***************************************************************************)
EXTENDS Integers, Sequences, FiniteSets, TLC

VARIABLES
    pc,                 \* where main is
    args,               \* the parsed command line
    universal_newlines, \* whether text mode translates line endings
    build,              \* the build child: "none", "running", "exited"
    scratch,            \* the trace files in the scratch directory
    discovered,         \* the files glob.iglob gave collect
    tmpdir,             \* the scratch directory: "none", "exists", "removed"
    exit_code,
    collected,          \* whether collect has returned
    commands,
    output,             \* the output file
    exception,          \* the exception in flight, or "None"
    printed,            \* whether the handler has printed the exception
    result              \* how main ended

vars == <<pc, args, universal_newlines, build, scratch, discovered, tmpdir,
          exit_code, collected, commands, output, exception, printed, result>>

----------------------------------------------------------------------------
(* Characters and text *)

RS == "<RS>"
US == "<US>"
LF == "<LF>"
CR == "<CR>"

Digits == {"0", "1", "2", "3", "4", "5", "6", "7", "8", "9"}

RECURSIVE Concat(_)
\* ''.join(parts)
Concat(parts) ==
    IF parts = <<>> THEN <<>> ELSE Head(parts) \o Concat(Tail(parts))

RECURSIVE JoinWith(_, _)
\* sep.join(parts)
JoinWith(sep, parts) ==
    IF parts = <<>> THEN <<>>
    ELSE IF Len(parts) = 1 THEN parts[1]
    ELSE parts[1] \o sep \o JoinWith(sep, Tail(parts))

RECURSIVE SplitFrom(_, _, _)
\* the pieces of s around every occurrence of the character sep, the piece
\* being read so far is cur
SplitFrom(s, sep, cur) ==
    IF s = <<>> THEN <<cur>>
    ELSE IF Head(s) = sep THEN <<cur>> \o SplitFrom(Tail(s), sep, <<>>)
    ELSE SplitFrom(Tail(s), sep, Append(cur, Head(s)))

\* str.split(sep): n separators give n + 1 pieces, '' gives ['']
split(s, sep) == SplitFrom(s, sep, <<>>)

\* list[:-1]
ButLast(list) == SubSeq(list, 1, Len(list) - 1)

----------------------------------------------------------------------------
(* Regular expressions, as Python's re module matches them.  A pattern is  *)
(* a tree; Ends(re, s, I) is the set of positions where a match of re      *)
(* that starts at a position of I can end (a position is the number of     *)
(* characters consumed).                                                    *)

Lit(c)     == [t |-> "lit", c |-> c]
Dot        == [t |-> "dot"]
OneOf(cs)  == [t |-> "in", cs |-> cs]
NoneOf(cs) == [t |-> "notin", cs |-> cs]
Cat(rs)    == [t |-> "cat", rs |-> rs]
Alt(rs)    == [t |-> "alt", rs |-> rs]
Star(r)    == [t |-> "star", r |-> r]
Opt(r)     == [t |-> "opt", r |-> r]
Bol        == [t |-> "bol"]
Eol        == [t |-> "eol"]

\* a literal word
Word(w) == Cat([i \in DOMAIN w |-> Lit(w[i])])

\* whether the one-character pattern re matches the character c
MatchesChar(re, c) ==
    CASE re.t = "lit"   -> c = re.c
      [] re.t = "dot"   -> c # LF
      [] re.t = "in"    -> c \in re.cs
      [] re.t = "notin" -> c \notin re.cs

RECURSIVE Ends(_, _, _)
Ends(re, s, I) ==
    CASE re.t \in {"lit", "dot", "in", "notin"} ->
            {i + 1 : i \in {j \in I : j < Len(s) /\ MatchesChar(re, s[j + 1])}}
      [] re.t = "cat"   ->
            IF re.rs = <<>> THEN I
            ELSE Ends(Cat(Tail(re.rs)), s, Ends(Head(re.rs), s, I))
      [] re.t = "alt"   -> UNION {Ends(re.rs[k], s, I) : k \in DOMAIN re.rs}
      [] re.t = "star"  ->
            LET more == Ends(re.r, s, I)
            IN  IF more \subseteq I THEN I ELSE Ends(re, s, I \cup more)
      [] re.t = "opt"   -> I \cup Ends(re.r, s, I)
      [] re.t = "bol"   -> {i \in I : i = 0}
      [] re.t = "eol"   ->
            {i \in I : \/ i = Len(s)
                       \/ i = Len(s) - 1 /\ s[Len(s)] = LF}

\* pattern.match(s) is not None
match(pattern, s) == Ends(pattern, s, {0}) # {}

----------------------------------------------------------------------------
(* Results of calls that can raise *)

Return(v) == [exc |-> "None", value |-> v]
Raise(e)  == [exc |-> e]
Raised(r) == r.exc # "None"

----------------------------------------------------------------------------
(* collect.parse *)

RECURSIVE TranslateNewlines(_)
\* text mode with universal newlines: CR LF and a lone CR are read as LF
TranslateNewlines(s) ==
    IF s = <<>> THEN <<>>
    ELSE IF Head(s) = CR
         THEN IF Len(s) >= 2 /\ s[2] = LF
              THEN <<LF>> \o TranslateNewlines(Tail(Tail(s)))
              ELSE <<LF>> \o TranslateNewlines(Tail(s))
         ELSE <<Head(s)>> \o TranslateNewlines(Tail(s))

\* open(filename, 'r') ... handler.read(); a file is [readable, content]
read(file, universal) ==
    IF ~file.readable THEN Raise("IOError")
    ELSE Return(IF universal THEN TranslateNewlines(file.content)
                ELSE file.content)

\* the fifth field as the code takes it: records[4].split(US)[:-1]
ArgumentVector(field) == ButLast(split(field, US))

\* a mutant of ParseRecords that pads a short file instead of failing
ParseRecordsLenient(records) ==
    LET field(i) == IF i <= Len(records) THEN records[i] ELSE <<>>
    IN  Return([pid       |-> field(1),
                ppid      |-> field(2),
                function  |-> field(3),
                directory |-> field(4),
                command   |-> ArgumentVector(field(5))])

ParseRecords(records) ==
    IF Len(records) < 5 THEN Raise("IndexError")
    ELSE Return([pid       |-> records[1],
                 ppid      |-> records[2],
                 function  |-> records[3],
                 directory |-> records[4],
                 command   |-> ArgumentVector(records[5])])

parse(file, universal) ==
    LET content == read(file, universal)
    IN  IF Raised(content) THEN content
        ELSE ParseRecords(split(content.value, RS))

----------------------------------------------------------------------------
(* collect.general_filter *)

\* ([^/]*/)*
DirPrefix == Star(Cat(<<Star(NoneOf({"/"})), Lit("/")>>))
\* (c|\+\+)
COrPlusPlus == Alt(<<Lit("c"), Word(<<"+", "+">>)>>)
\* (cc|\+\+)
CcOrPlusPlus == Alt(<<Word(<<"c", "c">>), Word(<<"+", "+">>)>>)

\* r'^([^/]*/)*c(c|\+\+)$'
PatternCc ==
    Cat(<<Bol, DirPrefix, Lit("c"), COrPlusPlus, Eol>>)

\* r'^([^/]*/)*([^-]*-)*g(cc|\+\+)(-[34].[0-9])?$'
PatternGcc ==
    Cat(<<Bol, DirPrefix, Star(Cat(<<Star(NoneOf({"-"})), Lit("-")>>)),
          Lit("g"), CcOrPlusPlus,
          Opt(Cat(<<Lit("-"), OneOf({"3", "4"}), Dot, OneOf(Digits)>>)),
          Eol>>)

\* r'^([^/]*/)*clang(\+\+)?(-[23].[0-9])?$'
PatternClang ==
    Cat(<<Bol, DirPrefix, Word(<<"c", "l", "a", "n", "g">>),
          Opt(Word(<<"+", "+">>)),
          Opt(Cat(<<Lit("-"), OneOf({"2", "3"}), Dot, OneOf(Digits)>>)),
          Eol>>)

\* r'^([^/]*/)*llvm-g(cc|\+\+)$'
PatternLlvmGcc ==
    Cat(<<Bol, DirPrefix, Word(<<"l", "l", "v", "m", "-", "g">>),
          CcOrPlusPlus, Eol>>)

CompilerPatterns == <<PatternCc, PatternGcc, PatternClang, PatternLlvmGcc>>

\* r'^-cc1$'
PatternCc1 == Cat(<<Bol, Word(<<"-", "c", "c", "1">>), Eol>>)

CancelPatterns == <<PatternCc1>>

known_compiler(command) ==
    IF command = <<>> THEN Raise("IndexError")
    ELSE Return(\E k \in DOMAIN CompilerPatterns :
                    match(CompilerPatterns[k], command[1]))

cancel_parameter(command) ==
    \E k \in DOMAIN CancelPatterns :
        \E i \in 2..Len(command) : match(CancelPatterns[k], command[i])

\* the verdict on one record: "accept", "reject", or the exception raised
Recognize(command) ==
    LET known == known_compiler(command)
    IN  IF Raised(known) THEN known.exc
        ELSE IF known.value /\ ~cancel_parameter(command) THEN "accept"
        ELSE "reject"

general_filter(iterator) ==
    IF \E i \in DOMAIN iterator : Recognize(iterator[i].command) = "IndexError"
    THEN Raise("IndexError")
    ELSE Return(SelectSeq(iterator,
                          LAMBDA record : Recognize(record.command) = "accept"))

----------------------------------------------------------------------------
(* analyzer.command.parse, the classifier collect.format_record consumes:  *)
(* it labels an invocation and extracts its source-file operands.          *)

Actions == {"Compile", "Link", "Other"}

IsSourceFile(arg) ==
    Len(arg) >= 3 /\ arg[Len(arg) - 1] = "." /\ arg[Len(arg)] = "c"

CommandClassifier(command) ==
    LET files == SelectSeq(Tail(command), IsSourceFile)
    IN  [action |-> IF \E i \in 2..Len(command) : command[i] = <<"-", "c">>
                    THEN "Compile"
                    ELSE IF files # <<>> THEN "Link" ELSE "Other",
         files  |-> files]

----------------------------------------------------------------------------
(* collect.format_record *)

\* a mutant of join_command that renders the executable by its base name
join_command_basename(argv) ==
    IF argv = <<>> THEN <<>>
    ELSE LET parts == split(argv[1], "/")
         IN  JoinWith(<<" ">>, <<parts[Len(parts)]>> \o Tail(argv))

\* ' '.join(args), args being the argument vector argv
join_command(argv) == JoinWith(<<" ">>, argv)

\* os.getcwd() of the collecting process
getcwd == <<"/", "w">>

RECURSIVE NormComps(_, _, _)
\* the loop of posixpath.normpath over the components of a path
NormComps(comps, rooted, new) ==
    IF comps = <<>> THEN new
    ELSE LET comp == Head(comps)
         IN  IF comp = <<>> \/ comp = <<".">>
             THEN NormComps(Tail(comps), rooted, new)
             ELSE IF \/ comp # <<".", ".">>
                     \/ (~rooted /\ new = <<>>)
                     \/ (new # <<>> /\ new[Len(new)] = <<".", ".">>)
             THEN NormComps(Tail(comps), rooted, Append(new, comp))
             ELSE IF new # <<>>
             THEN NormComps(Tail(comps), rooted, ButLast(new))
             ELSE NormComps(Tail(comps), rooted, new)

\* posixpath.normpath
normpath(path) ==
    IF path = <<>> THEN <<".">>
    ELSE LET slashes == IF Head(path) # "/" THEN 0
                        ELSE IF /\ Len(path) >= 2 /\ path[2] = "/"
                                /\ ~(Len(path) >= 3 /\ path[3] = "/")
                             THEN 2 ELSE 1
             body == JoinWith(<<"/">>,
                              NormComps(split(path, "/"), slashes > 0, <<>>))
             out == [i \in 1..slashes |-> "/"] \o body
         IN  IF out = <<>> THEN <<".">> ELSE out

\* os.path.abspath: relative names resolve against the collector's directory
abspath(filename) ==
    IF filename # <<>> /\ Head(filename) = "/" THEN normpath(filename)
    ELSE normpath(IF getcwd[Len(getcwd)] = "/" THEN getcwd \o filename
                  ELSE getcwd \o <<"/">> \o filename)

\* a mutant of RecordEntries that emits one entry per record
RecordEntriesFirstFile(record) ==
    LET atoms == CommandClassifier(record.command)
    IN  IF atoms.action = "Compile" /\ atoms.files # <<>>
        THEN <<[directory |-> record.directory,
                command   |-> join_command(record.command),
                file      |-> abspath(atoms.files[1])]>>
        ELSE <<>>

\* a mutant of RecordEntries that does not look at the action
RecordEntriesAnyAction(record) ==
    LET atoms == CommandClassifier(record.command)
    IN  [i \in DOMAIN atoms.files |->
            [directory |-> record.directory,
             command   |-> join_command(record.command),
             file      |-> abspath(atoms.files[i])]]

\* the entries one accepted record yields
RecordEntries(record) ==
    LET atoms == CommandClassifier(record.command)
    IN  IF atoms.action = "Compile"
        THEN [i \in DOMAIN atoms.files |->
                 [directory |-> record.directory,
                  command   |-> join_command(record.command),
                  file      |-> abspath(atoms.files[i])]]
        ELSE <<>>

format_record(iterator) ==
    Concat([i \in DOMAIN iterator |-> RecordEntries(iterator[i])])

----------------------------------------------------------------------------
(* collect *)

\* [parse(record) for record in glob.iglob(...)]: the first failure raises
ParseAll(files, universal) ==
    LET parsed == [i \in DOMAIN files |-> parse(files[i], universal)]
        bad    == {i \in DOMAIN files : Raised(parsed[i])}
    IN  IF bad # {}
        THEN Raise(parsed[CHOOSE i \in bad : \A j \in bad : i <= j].exc)
        ELSE Return([i \in DOMAIN files |-> parsed[i].value])

\* chain = lambda x: format_record(general_filter(x))
chain(x) ==
    LET accepted == general_filter(x)
    IN  IF Raised(accepted) THEN accepted
        ELSE Return(format_record(accepted.value))

\* a mutant of collect that filters whatever the flag says
collect_always_filtered(filtering, files, universal) ==
    LET generator == ParseAll(files, universal)
    IN  IF Raised(generator) THEN generator
        ELSE chain(generator.value)

collect(filtering, files, universal) ==
    LET generator == ParseAll(files, universal)
    IN  IF Raised(generator) THEN generator
        ELSE IF filtering THEN chain(generator.value)
        ELSE generator

----------------------------------------------------------------------------
(* The trace files the interception library writes, one per executed       *)
(* process: five fields joined by RS, the fifth holding every argument     *)
(* followed by US.                                                         *)

EncodeArguments(argv) == Concat([i \in DOMAIN argv |-> argv[i] \o <<US>>])

EncodeFields(directory, argv) ==
    JoinWith(<<RS>>, <<(<<"7">>), (<<"1">>), (<<"e", "x", "e", "c", "v", "e">>),
                       directory, EncodeArguments(argv)>>)

TraceFile(directory, argv) ==
    [readable |-> TRUE, content |-> EncodeFields(directory, argv)]

DirW == <<"/", "w">>
DirB == <<"/", "b">>

Cc1 == <<"-", "c", "c", "1">>
DashC == <<"-", "c">>
FooC == <<"f", "o", "o", ".", "c">>
Gcc == <<"g", "c", "c">>

\* /usr/bin/cc -c foo.c -o foo.o
ArgvCcFoo ==
    <<(<<"/", "u", "s", "r", "/", "b", "i", "n", "/", "c", "c">>), DashC, FooC,
      (<<"-", "o">>), (<<"f", "o", "o", ".", "o">>)>>
\* /bin/ls -la
ArgvLs == <<(<<"/", "b", "i", "n", "/", "l", "s">>), (<<"-", "l", "a">>)>>
\* gcc -c foo.c -cc1
ArgvGccCc1 == <<Gcc, DashC, FooC, Cc1>>
\* gcc -c a.c b.c
ArgvTwoSources == <<Gcc, DashC, (<<"a", ".", "c">>), (<<"b", ".", "c">>)>>
\* gcc -c foo.c '-cc1<LF>'
ArgvCc1Newline == <<Gcc, DashC, FooC, Cc1 \o <<LF>> >>
\* gcc-4.8 -c foo.c
ArgvGcc48 == <<(<<"g", "c", "c", "-", "4", ".", "8">>), DashC, FooC>>
\* /usr/bin/clang++ foo.c
ArgvClangLink ==
    <<(<<"/", "u", "s", "r", "/", "b", "i", "n", "/",
         "c", "l", "a", "n", "g", "+", "+">>), FooC>>
\* cc '' -c ../foo.c '-D<CR>'
ArgvCarriage ==
    <<(<<"c", "c">>), (<<>>), DashC, (<<".", ".", "/">> \o FooC),
      (<<"-", "D", CR>>)>>

FileCcFoo      == TraceFile(DirW, ArgvCcFoo)
FileLs         == TraceFile(DirW, ArgvLs)
FileGccCc1     == TraceFile(DirW, ArgvGccCc1)
FileTwoSources == TraceFile(DirB, ArgvTwoSources)
FileEmptyArgv  == TraceFile(DirW, <<>>)
FileCc1Newline == TraceFile(DirW, ArgvCc1Newline)
FileClangLink  == TraceFile(DirW, ArgvClangLink)
FileCarriage   == TraceFile(DirB, ArgvCarriage)

\* a file cut short after its third field
FileTruncated ==
    [readable |-> TRUE,
     content  |-> JoinWith(<<RS>>, <<(<<"7">>), (<<"1">>), (<<"e", "x">>)>>)]
\* a file whose last argument lacks its terminator, with a sixth field
FileRagged ==
    [readable |-> TRUE,
     content  |-> ButLast(EncodeFields(DirW, ArgvGcc48)) \o <<RS, "x">>]
\* a match of the name pattern that cannot be read
FileUnreadable == [readable |-> FALSE, content |-> <<>>]

TraceFiles ==
    {FileCcFoo, FileLs, FileGccCc1, FileTwoSources, FileEmptyArgv,
     FileCc1Newline, FileClangLink, FileCarriage,
     FileTruncated, FileRagged, FileUnreadable}

\* the most trace files one build leaves behind
MaxFiles == 2

\* the statuses a build command exits with
ExitCodes == {0, 1, 127}

----------------------------------------------------------------------------
(* main *)

\* return 127
FailureExitCode == 127
\* the status argparse exits with on a usage error
UsageExitCode == 2

NoResult == [kind |-> "none", code |-> 0]

Init ==
    /\ pc = "parse_args"
    /\ args = [filtering |-> FALSE]
    /\ universal_newlines \in BOOLEAN
    /\ build = "none"
    /\ scratch = <<>>
    /\ discovered = <<>>
    /\ tmpdir = "none"
    /\ exit_code = 0
    /\ collected = FALSE
    /\ commands = <<>>
    /\ output = [state |-> "untouched", data |-> <<>>]
    /\ exception = "None"
    /\ printed = FALSE
    /\ result = NoResult

\* parser.parse_args() succeeds; exit_code = 0
ParseArgs ==
    /\ pc = "parse_args"
    /\ \E disable \in BOOLEAN : args' = [filtering |-> disable]
    /\ exit_code' = 0
    /\ pc' = "mkdtemp"
    /\ UNCHANGED <<universal_newlines, build, scratch, discovered, tmpdir,
                   collected, commands, output, exception, printed, result>>

\* parser.parse_args() rejects the command line: SystemExit leaves main
ParseArgsExits ==
    /\ pc = "parse_args"
    /\ exception' = "SystemExit"
    /\ result' = [kind |-> "SystemExit", code |-> UsageExitCode]
    /\ pc' = "done"
    /\ UNCHANGED <<args, universal_newlines, build, scratch, discovered,
                   tmpdir, exit_code, collected, commands, output, printed>>

\* with TemporaryDirectory(prefix='bear-') as tmpdir
Mkdtemp ==
    /\ pc = "mkdtemp"
    /\ tmpdir' = "exists"
    /\ pc' = "run_build"
    /\ UNCHANGED <<args, universal_newlines, build, scratch, discovered,
                   exit_code, collected, commands, output, exception,
                   printed, result>>

\* a mutant of Popen that goes on without child.wait()
PopenNoWait ==
    /\ pc = "run_build"
    /\ build' = "running"
    /\ pc' = "collect"
    /\ UNCHANGED <<args, universal_newlines, scratch, discovered, tmpdir,
                   exit_code, collected, commands, output, exception,
                   printed, result>>

\* run_build: child = subprocess.Popen(command, env=environment, shell=True)
Popen ==
    /\ pc = "run_build"
    /\ build' = "running"
    /\ pc' = "wait"
    /\ UNCHANGED <<args, universal_newlines, scratch, discovered, tmpdir,
                   exit_code, collected, commands, output, exception,
                   printed, result>>

\* run_build raises: the preload library is not found (its path is then
\* None, which Popen refuses in env), or the child cannot be started
PopenFails ==
    /\ pc = "run_build"
    /\ exception' = "OSError"
    /\ pc' = "cleanup"
    /\ UNCHANGED <<args, universal_newlines, build, scratch, discovered,
                   tmpdir, exit_code, collected, commands, output, printed,
                   result>>

\* a process of the running build is intercepted: one more trace file
Intercept ==
    /\ pc = "wait"
    /\ build = "running"
    /\ Len(scratch) < MaxFiles
    /\ \E file \in TraceFiles : scratch' = Append(scratch, file)
    /\ UNCHANGED <<pc, args, universal_newlines, build, discovered, tmpdir,
                   exit_code, collected, commands, output, exception,
                   printed, result>>

\* child.wait(); return child.returncode
Wait ==
    /\ pc = "wait"
    /\ build = "running"
    /\ build' = "exited"
    /\ \E code \in ExitCodes : exit_code' = code
    /\ pc' = "collect"
    /\ UNCHANGED <<args, universal_newlines, scratch, discovered, tmpdir,
                   collected, commands, output, exception, printed, result>>

\* commands = collect(not args.filtering, tmpdir)
Collect ==
    /\ pc = "collect"
    /\ discovered' = scratch
    /\ LET got == collect(~args.filtering, scratch, universal_newlines)
       IN  IF Raised(got)
           THEN /\ exception' = got.exc
                /\ pc' = "cleanup"
                /\ UNCHANGED <<collected, commands>>
           ELSE /\ commands' = got.value
                /\ collected' = TRUE
                /\ pc' = "write"
                /\ UNCHANGED exception
    /\ UNCHANGED <<args, universal_newlines, build, scratch, tmpdir,
                   exit_code, output, printed, result>>

\* with open(args.output, 'w+') as handle: json.dump(commands, handle, ...)
WriteOutput ==
    /\ pc = "write"
    /\ output' = [state |-> "written", data |-> commands]
    /\ pc' = "cleanup"
    /\ UNCHANGED <<args, universal_newlines, build, scratch, discovered,
                   tmpdir, exit_code, collected, commands, exception,
                   printed, result>>

\* open(args.output, 'w+') raises
WriteOutputFails ==
    /\ pc = "write"
    /\ exception' = "IOError"
    /\ pc' = "cleanup"
    /\ UNCHANGED <<args, universal_newlines, build, scratch, discovered,
                   tmpdir, exit_code, collected, commands, output, printed,
                   result>>

\* leaving the with block, by return or by exception, removes the directory
Cleanup ==
    /\ pc = "cleanup"
    /\ tmpdir' = "removed"
    /\ scratch' = <<>>
    /\ pc' = IF exception = "None" THEN "return" ELSE "except"
    /\ UNCHANGED <<args, universal_newlines, build, discovered, exit_code,
                   collected, commands, output, exception, printed, result>>

\* removing the directory raises
CleanupFails ==
    /\ pc = "cleanup"
    /\ exception' = "OSError"
    /\ pc' = "except"
    /\ UNCHANGED <<args, universal_newlines, build, scratch, discovered,
                   tmpdir, exit_code, collected, commands, output, printed,
                   result>>

\* a mutant of ReturnExitCode that reports success whatever the build did
ReturnZero ==
    /\ pc = "return"
    /\ result' = [kind |-> "return", code |-> 0]
    /\ pc' = "done"
    /\ UNCHANGED <<args, universal_newlines, build, scratch, discovered,
                   tmpdir, exit_code, collected, commands, output, exception,
                   printed>>

\* return exit_code
ReturnExitCode ==
    /\ pc = "return"
    /\ result' = [kind |-> "return", code |-> exit_code]
    /\ pc' = "done"
    /\ UNCHANGED <<args, universal_newlines, build, scratch, discovered,
                   tmpdir, exit_code, collected, commands, output, exception,
                   printed>>

\* except Exception as exception: print(str(exception)); return 127
Except ==
    /\ pc = "except"
    /\ printed' = TRUE
    /\ result' = [kind |-> "return", code |-> FailureExitCode]
    /\ pc' = "done"
    /\ UNCHANGED <<args, universal_newlines, build, scratch, discovered,
                   tmpdir, exit_code, collected, commands, output, exception>>

Next ==
    \/ ParseArgs
    \/ ParseArgsExits
    \/ Mkdtemp
    \/ Popen
    \/ PopenFails
    \/ Intercept
    \/ Wait
    \/ Collect
    \/ WriteOutput
    \/ WriteOutputFails
    \/ Cleanup
    \/ CleanupFails
    \/ ReturnExitCode
    \/ Except

Spec == Init /\ [][Next]_vars

----------------------------------------------------------------------------
(* Properties *)

\* collect has just been called on the scratch directory
CollectCalled == pc \in {"write", "cleanup"} /\ build = "exited"

\* collect has just returned its value to main
Returned == pc = "write" /\ collected

\* filtering is applied (the disable-filter flag is off)
Filtered == ~args.filtering

\* a file with fewer than five RS-delimited fields, or unreadable
Malformed(file) == ~file.readable \/ Len(split(file.content, RS)) < 5

\* a file as the trace-file format has it: five fields, every argument of
\* the fifth followed by US
WellFormed(file) ==
    /\ file.readable
    /\ LET fields == split(file.content, RS)
       IN  /\ Len(fields) = 5
           /\ LET pieces == split(fields[5], US)
              IN  pieces[Len(pieces)] = <<>>

AllParse == \A i \in DOMAIN discovered : ~Malformed(discovered[i])

\* the record parsed from the i-th discovered file
RecordOf(i) == parse(discovered[i], universal_newlines).value

\* the number of entries the i-th discovered file is due
Due(i) ==
    LET command == RecordOf(i).command
    IN  IF /\ Recognize(command) = "accept"
           /\ CommandClassifier(command).action = "Compile"
        THEN Len(CommandClassifier(command).files)
        ELSE 0

RECURSIVE DueBefore(_)
\* the number of entries due to the files before the i-th
DueBefore(i) == IF i <= 1 THEN 0 ELSE DueBefore(i - 1) + Due(i - 1)

\* C1: if a discovered trace file has fewer than five fields or cannot be
\* read, collect does not return, the output file stays untouched, and main
\* ends by printing the exception and returning 127.
C1_BadFileAborts ==
    (\E i \in DOMAIN discovered : Malformed(discovered[i])) =>
        /\ ~collected
        /\ output.state = "untouched"
        /\ exception # "None"
        /\ pc = "done" =>
              /\ printed
              /\ result = [kind |-> "return", code |-> FailureExitCode]

C1_Witness ==
    /\ pc = "done"
    /\ Len(discovered) = 2
    /\ ~Malformed(discovered[1])
    /\ Malformed(discovered[2])
    /\ args.filtering
    /\ result.code = FailureExitCode

ScenarioA ==
    /\ Returned
    /\ Filtered
    /\ discovered \in {<<FileCcFoo, FileLs>>, <<FileLs, FileCcFoo>>}

\* C2 as claimed: in Scenario A filtered collection yields the single entry
\* whose command is "cc -c foo.c -o foo.o".
C2_ScenarioA_Claimed ==
    ScenarioA =>
        commands =
            <<[directory |-> getcwd,
               command   |-> <<"c", "c", " ", "-", "c", " ",
                               "f", "o", "o", ".", "c", " ", "-", "o", " ",
                               "f", "o", "o", ".", "o">>,
               file      |-> getcwd \o <<"/">> \o FooC]>>

\* C2 amended: in Scenario A filtered collection yields the single entry
\* whose command is the space-joined argument vector as recorded,
\* "/usr/bin/cc -c foo.c -o foo.o".
C2_ScenarioA ==
    ScenarioA =>
        commands =
            <<[directory |-> getcwd,
               command   |-> <<"/", "u", "s", "r", "/", "b", "i", "n", "/",
                               "c", "c", " ", "-", "c", " ",
                               "f", "o", "o", ".", "c", " ", "-", "o", " ",
                               "f", "o", "o", ".", "o">>,
               file      |-> getcwd \o <<"/">> \o FooC]>>

C2_Witness == ScenarioA /\ discovered = <<FileCcFoo, FileLs>>

\* C3 as claimed: the recognizer accepts a record exactly when argument[0]
\* matches a compiler-name pattern and no later argument equals "-cc1".
C3_RecognizerExactToken ==
    (CollectCalled /\ Filtered /\ AllParse) =>
        \A i \in DOMAIN discovered :
            LET command == RecordOf(i).command
            IN  Recognize(command) = "accept" <=>
                    /\ command # <<>>
                    /\ \E k \in DOMAIN CompilerPatterns :
                           match(CompilerPatterns[k], command[1])
                    /\ \A j \in 2..Len(command) : command[j] # Cc1

C5_UnfilteredKeepsAll ==
    (Returned /\ ~Filtered) =>
        /\ Len(commands) = Len(discovered)
        /\ \A i \in DOMAIN discovered :
               /\ DOMAIN commands[i] =
                      {"pid", "ppid", "function", "directory", "command"}
               /\ commands[i] = RecordOf(i)

C5_Witness ==
    /\ Returned
    /\ ~Filtered
    /\ discovered = <<FileGccCc1, FileLs>>

\* C6: an accepted record yields no entry unless its action is Compile,
\* and then one entry per source-file operand, in order, each with the
\* record's directory and the space-joined argument vector.
C6_AssemblerEntries ==
    (Returned /\ Filtered) =>
        /\ Len(commands) = DueBefore(Len(discovered) + 1)
        /\ \A i \in DOMAIN discovered :
               LET record == RecordOf(i)
                   atoms  == CommandClassifier(record.command)
               IN  Recognize(record.command) = "accept" =>
                       /\ atoms.action # "Compile" => Due(i) = 0
                       /\ atoms.action = "Compile" =>
                              \A k \in 1..Len(atoms.files) :
                                  LET entry == commands[DueBefore(i) + k]
                                  IN  /\ entry.directory = record.directory
                                      /\ entry.command =
                                             JoinWith(<<" ">>, record.command)
                                      /\ entry.file = abspath(atoms.files[k])

C6_Witness ==
    /\ Returned
    /\ Filtered
    /\ discovered = <<FileTwoSources, FileClangLink>>
    /\ Len(commands) = 2

\* C7 as claimed: for a well-formed trace file, the parsed arguments, each
\* followed by US, make up the file's fifth field again.
C7_RoundTrip ==
    (Returned /\ ~Filtered) =>
        \A i \in DOMAIN discovered :
            WellFormed(discovered[i]) =>
                EncodeArguments(commands[i].command) =
                    split(discovered[i].content, RS)[5]

\* C8 as claimed: the recognizer gives a verdict, accept or reject, on
\* every argument vector a parsed record carries.
C8_RecognizerTotal ==
    (CollectCalled /\ Filtered /\ AllParse) =>
        /\ collected
        /\ \A i \in DOMAIN discovered :
               Recognize(RecordOf(i).command) \in {"accept", "reject"}

\* the parts of C9 that hold as claimed
C9_Order ==
    /\ (pc = "collect" \/ collected) => build = "exited"
    /\ output.state = "written" => collected
    /\ (pc \in {"write", "cleanup"} /\ build = "exited") => scratch = discovered

\* C9 as claimed: collection starts after the build child has exited, the
\* output is written after collection, the scratch directory is removed
\* only after the output has been written, and collection leaves the
\* scratch directory as it found it.
C9_Claimed ==
    /\ C9_Order
    /\ tmpdir = "removed" => output.state = "written"

\* C9 amended: collection starts after the build child has exited, the
\* output is written after collection, the scratch directory is removed
\* only after the output has been written or an exception has ended the
\* run, and collection leaves the scratch directory as it found it.
C9_OrderOfMain ==
    /\ C9_Order
    /\ tmpdir = "removed" =>
           /\ build # "running"
           /\ output.state = "written" \/ exception # "None"

C9_Witness ==
    /\ pc = "done"
    /\ tmpdir = "removed"
    /\ output.state = "written"
    /\ Len(discovered) = MaxFiles

\* C10 as claimed: main returns the build's exit code whenever collection
\* and writing succeed, and returns 127 exactly when an exception was
\* raised.
C10_Claimed ==
    pc = "done" =>
        /\ (collected /\ output.state = "written") =>
               result = [kind |-> "return", code |-> exit_code]
        /\ result = [kind |-> "return", code |-> FailureExitCode] <=>
               exception # "None"

\* C10 amended: main returns the build's exit code whenever no exception
\* is raised, the database then being collected and written; it returns
\* 127 whenever an Exception is raised, and also when the build itself
\* exits with 127; a rejected command line ends main by SystemExit with
\* status 2.
C10_ExitCode ==
    pc = "done" =>
        /\ exception = "None" =>
               /\ result = [kind |-> "return", code |-> exit_code]
               /\ collected
               /\ output = [state |-> "written", data |-> commands]
        /\ exception \notin {"None", "SystemExit"} =>
               /\ result = [kind |-> "return", code |-> FailureExitCode]
               /\ printed
        /\ exception = "SystemExit" =>
               /\ result = [kind |-> "SystemExit", code |-> UsageExitCode]
               /\ build = "none"
               /\ output.state = "untouched"
        /\ result = [kind |-> "return", code |-> FailureExitCode] <=>
               \/ exception \notin {"None", "SystemExit"}
               \/ exception = "None" /\ exit_code = FailureExitCode

C10_Witness ==
    /\ pc = "done"
    /\ exception = "None"
    /\ result = [kind |-> "return", code |-> 1]
    /\ output.state = "written"
    /\ discovered = <<>>

====
